---- MODULE Spec2Model ----
(***************************************************************************)
(* Model of zk-slot-soundness (src/application.py): a command-line script  *)
(* that reads storage slots of one contract from two RPC endpoints and     *)
(* compares the values.                                                    *)
(*                                                                         *)
(* A Python str is a sequence of one-character strings; a Python dict is   *)
(* a function whose DOMAIN is its key set; a Python int is a sign and a    *)
(* sequence of base-16 digits, most significant first, without leading     *)
(* zeros (Python integers are unbounded, so no machine width applies).     *)
(***************************************************************************)
EXTENDS Integers, Sequences, FiniteSets, TLC

VARIABLES
    pc,          \* position of the script: which statement of main runs next
    args,        \* the argparse.Namespace returned by parse_args
    address,     \* the checksummed address
    slots,       \* List[Slot]: the output of parse_slots
    conn,        \* history: the connectivity checks made, in order
    reads,       \* history: the storage reads issued, in order
    a_vals,      \* Dict[str, str] read from endpoint A
    b_vals,      \* Dict[str, str] read from endpoint B
    a_got,       \* history: outcome of each read of endpoint A, per slot position
    b_got,       \* history: outcome of each read of endpoint B, per slot position
    mismatches,  \* main's counter
    lines,       \* the per-slot report lines printed by main
    out,         \* the JSON object printed when --json is set
    summary,     \* the summary line printed by main
    exit_code,   \* the process exit status
    exit_at,     \* history: the statement that ended the run
    raw,         \* argument of parse_slot_hex
    result,      \* return value (or exception) of a function applied on its own
    diffs,       \* first component returned by compare
    ok           \* second component returned by compare

vars == <<pc, args, address, slots, conn, reads, a_vals, b_vals, a_got, b_got,
          mismatches, lines, out, summary, exit_code, exit_at, raw, result, diffs, ok>>

\* A Python int: sign and base-16 digits, most significant first, no leading zero
PyInt(neg, mag) == [exc |-> FALSE, neg |-> neg, mag |-> mag]

\* a raised ValueError in place of a returned int
ValueError == [exc |-> TRUE, neg |-> FALSE, mag |-> <<>>]

----------------------------------------------------------------------------
(* Bounds of the model *)

\* longest string handed to parse_slot_hex on its own
MaxRawLen == 5
\* the long inputs are 0x1 followed by up to MaxZeros zeros
MaxZeros == 64
\* most --slot items / manifest entries of a run
MaxSlots == 2
\* most keys of a map handed to compare on its own
MaxKeys == 2

----------------------------------------------------------------------------
(* Python str primitives *)

RECURSIVE Repeat(_, _)
Repeat(c, n) == IF n = 0 THEN <<>> ELSE <<c>> \o Repeat(c, n - 1)

\* all strings over alphabet A of length at most n
StringsUpTo(A, n) == UNION {[1..k -> A] : k \in 0..n}

\* code points, as ord() gives them: they decide the order sorted() produces
Ord(c) ==
    CASE c = "\t" -> 9   [] c = "\n" -> 10 [] c = " " -> 32  [] c = "+" -> 43
      [] c = "-" -> 45   [] c = "/" -> 47  [] c = "0" -> 48  [] c = "1" -> 49
      [] c = "2" -> 50   [] c = "3" -> 51  [] c = "4" -> 52  [] c = "5" -> 53
      [] c = "6" -> 54   [] c = "7" -> 55  [] c = "8" -> 56  [] c = "9" -> 57
      [] c = ":" -> 58   [] c = "A" -> 65  [] c = "B" -> 66  [] c = "C" -> 67
      [] c = "D" -> 68   [] c = "E" -> 69  [] c = "F" -> 70  [] c = "X" -> 88
      [] c = "_" -> 95   [] c = "a" -> 97  [] c = "b" -> 98  [] c = "c" -> 99
      [] c = "d" -> 100  [] c = "e" -> 101 [] c = "f" -> 102 [] c = "g" -> 103
      [] c = "x" -> 120  [] c = "y" -> 121

IsSpace(c) == c \in {" ", "\t", "\n"}

\* str.lower on one character
LowerChar(c) ==
    CASE c = "A" -> "a" [] c = "B" -> "b" [] c = "C" -> "c" [] c = "D" -> "d"
      [] c = "E" -> "e" [] c = "F" -> "f" [] c = "X" -> "x" [] OTHER -> c

Lower(s) == [i \in 1..Len(s) |-> LowerChar(s[i])]

RECURSIVE LStrip(_)
LStrip(s) == IF s # <<>> /\ IsSpace(Head(s)) THEN LStrip(Tail(s)) ELSE s

RECURSIVE RStrip(_)
RStrip(s) ==
    IF s # <<>> /\ IsSpace(s[Len(s)]) THEN RStrip(SubSeq(s, 1, Len(s) - 1)) ELSE s

Strip(s) == RStrip(LStrip(s))

StartsWith(s, p) == Len(s) >= Len(p) /\ SubSeq(s, 1, Len(p)) = p

Contains(s, c) == \E i \in 1..Len(s) : s[i] = c

\* s.split(c, 1) for a string that contains c
SplitFirst(s, c) ==
    LET i == CHOOSE k \in 1..Len(s) : s[k] = c /\ \A j \in 1..(k - 1) : s[j] # c
    IN  <<SubSeq(s, 1, i - 1), SubSeq(s, i + 1, Len(s))>>

\* s < t in Python's order on str: lexicographic by code point
RECURSIVE StrLess(_, _)
StrLess(s, t) ==
    IF t = <<>> THEN FALSE
    ELSE IF s = <<>> THEN TRUE
    ELSE IF Head(s) # Head(t) THEN Ord(Head(s)) < Ord(Head(t))
    ELSE StrLess(Tail(s), Tail(t))

\* sorted(S) for a set of strings
RECURSIVE Sorted(_)
Sorted(S) ==
    IF S = {} THEN <<>>
    ELSE LET m == CHOOSE x \in S : \A y \in S \ {x} : StrLess(x, y)
         IN  <<m>> \o Sorted(S \ {m})

----------------------------------------------------------------------------
(* Python int(s, 16) *)

HexDigits == {"0", "1", "2", "3", "4", "5", "6", "7", "8", "9",
              "a", "b", "c", "d", "e", "f", "A", "B", "C", "D", "E", "F"}

DigitVal(c) ==
    CASE c = "0" -> 0 [] c = "1" -> 1 [] c = "2" -> 2 [] c = "3" -> 3
      [] c = "4" -> 4 [] c = "5" -> 5 [] c = "6" -> 6 [] c = "7" -> 7
      [] c = "8" -> 8 [] c = "9" -> 9
      [] c \in {"a", "A"} -> 10 [] c \in {"b", "B"} -> 11
      [] c \in {"c", "C"} -> 12 [] c \in {"d", "D"} -> 13
      [] c \in {"e", "E"} -> 14 [] c \in {"f", "F"} -> 15

RECURSIVE DropLeadingZeros(_)
DropLeadingZeros(d) ==
    IF d # <<>> /\ Head(d) = 0 THEN DropLeadingZeros(Tail(d)) ELSE d

\* the digit scan of int(): at least one digit, nothing but digits and
\* underscores, and every underscore between two digits
ScanOk(w) ==
    /\ w # <<>>
    /\ \A i \in 1..Len(w) : w[i] \in HexDigits \cup {"_"}
    /\ w[1] # "_"
    /\ w[Len(w)] # "_"
    /\ \A i \in 1..(Len(w) - 1) : ~(w[i] = "_" /\ w[i + 1] = "_")

IsHexDigit(c) == c \in HexDigits

\* the values of the digits scanned, underscores skipped
ScanDigits(w) ==
    LET ds == SelectSeq(w, IsHexDigit)
    IN  [i \in 1..Len(ds) |-> DigitVal(ds[i])]

\* int(s, 16): surrounding whitespace, an optional sign, an optional 0x/0X
\* prefix with one optional underscore after it, then the digits
int16(s) ==
    LET t    == Strip(s)
        neg  == t # <<>> /\ Head(t) = "-"
        u    == IF t # <<>> /\ Head(t) \in {"+", "-"} THEN Tail(t) ELSE t
        pre  == Len(u) >= 2 /\ u[1] = "0" /\ u[2] \in {"x", "X"}
        v    == IF pre THEN SubSeq(u, 3, Len(u)) ELSE u
        w    == IF pre /\ v # <<>> /\ Head(v) = "_" THEN Tail(v) ELSE v
    IN  IF ~ScanOk(w) THEN ValueError
        ELSE LET mag == DropLeadingZeros(ScanDigits(w))
             IN  PyInt(neg /\ mag # <<>>, mag)

----------------------------------------------------------------------------
(* parse_slot_hex *)

parse_slot_hex_no_lower(r) ==
    LET s == Strip(r)
    IN  IF ~StartsWith(s, <<"0", "x">>) THEN ValueError
        ELSE int16(s)

parse_slot_hex(r) ==
    LET s == Lower(Strip(r))
    IN  IF ~StartsWith(s, <<"0", "x">>) THEN ValueError
        ELSE int16(s)

----------------------------------------------------------------------------
(* Python dict *)

EmptyDict == <<>>

\* d[k] = v
DictSet(d, k, v) == [x \in (DOMAIN d) \cup {k} |-> IF x = k THEN v ELSE d[x]]

\* d.get(k, default)
DictGet(d, k, default) == IF k \in DOMAIN d THEN d[k] ELSE default

MISSING == <<"M", "I", "S", "S", "I", "N", "G">>

----------------------------------------------------------------------------
(* parse_slots *)

NoManifest == [kind |-> "none", items |-> <<>>]

\* a raised exception in place of the returned list
SlotsError == [exc |-> TRUE, slots |-> <<>>]

\* the pair appended for one --slot item
SlotOfItem(item) ==
    IF Contains(item, ":")
    THEN LET lr == SplitFirst(item, ":") IN <<lr[1], parse_slot_hex(lr[2])>>
    ELSE <<item, parse_slot_hex(item)>>

\* a loop of slots.append((label, parse_slot_hex(raw))): the first exception
\* leaves the loop and the function
Collect(pairs) ==
    IF \E i \in 1..Len(pairs) : pairs[i][2].exc
    THEN SlotsError
    ELSE [exc |-> FALSE, slots |-> pairs]

parse_slots_manifest_first(a) ==
    IF a.manifest.kind = "list" THEN
        Collect([i \in 1..Len(a.manifest.items) |->
                    <<a.manifest.items[i], parse_slot_hex(a.manifest.items[i])>>])
    ELSE IF a.slot # <<>> THEN
        Collect([i \in 1..Len(a.slot) |-> SlotOfItem(a.slot[i])])
    ELSE SlotsError

parse_slots(a) ==
    IF a.slot # <<>> THEN
        Collect([i \in 1..Len(a.slot) |-> SlotOfItem(a.slot[i])])
    ELSE IF a.manifest.kind # "none" THEN
        IF a.manifest.kind = "unreadable" THEN SlotsError
        ELSE IF a.manifest.kind = "list" THEN
            Collect([i \in 1..Len(a.manifest.items) |->
                        <<a.manifest.items[i], parse_slot_hex(a.manifest.items[i])>>])
        ELSE IF a.manifest.kind = "dict" THEN
            Collect([i \in 1..Len(a.manifest.items) |->
                        <<a.manifest.items[i][1], parse_slot_hex(a.manifest.items[i][2])>>])
        ELSE SlotsError
    ELSE SlotsError

----------------------------------------------------------------------------
(* compare *)

\* the loop of compare from keys[i] on, with diffs and ok as built so far
RECURSIVE CompareLoop(_, _, _, _, _, _)
CompareLoop(keys, i, a, b, d, k_ok) ==
    IF i > Len(keys) THEN <<d, k_ok>>
    ELSE LET k  == keys[i]
             va == DictGet(a, k, MISSING)
             vb == DictGet(b, k, MISSING)
         IN  IF va # vb
             THEN CompareLoop(keys, i + 1, a, b, Append(d, <<k, va, vb>>), FALSE)
             ELSE CompareLoop(keys, i + 1, a, b, d, k_ok)

compare_keys_of_a(a, b) ==
    CompareLoop(Sorted(DOMAIN a), 1, a, b, <<>>, TRUE)

compare(a, b) ==
    CompareLoop(Sorted((DOMAIN a) \cup (DOMAIN b)), 1, a, b, <<>>, TRUE)

----------------------------------------------------------------------------
(* to_checksum: Web3.is_address and Web3.to_checksum_address on the addresses
   of the model (a well-formed lower-case one, its checksum form, a bad one) *)

AddrLower == <<"0", "x", "a", "b">>
AddrChecksum == <<"0", "x", "A", "b">>
AddrBad == <<"0", "x", "g">>

is_address(addr) == addr \in {AddrLower, AddrChecksum}

\* the checksummed address, or <<>> for the raised ValueError
to_checksum(addr) == IF ~is_address(addr) THEN <<>> ELSE AddrChecksum

----------------------------------------------------------------------------
(* get_storage_at and the body of the loop of read_slots *)

\* HexBytes.hex(): 0x and two lower-case digits per byte
NibbleChar(n) ==
    CASE n = 0 -> "0" [] n = 1 -> "1" [] n = 2 -> "2" [] n = 3 -> "3"
      [] n = 4 -> "4" [] n = 5 -> "5" [] n = 6 -> "6" [] n = 7 -> "7"
      [] n = 8 -> "8" [] n = 9 -> "9" [] n = 10 -> "a" [] n = 11 -> "b"
      [] n = 12 -> "c" [] n = 13 -> "d" [] n = 14 -> "e" [] n = 15 -> "f"

RECURSIVE HexOfBytes(_)
HexOfBytes(bs) ==
    IF bs = <<>> THEN <<>>
    ELSE <<NibbleChar(Head(bs) \div 16), NibbleChar(Head(bs) % 16)>> \o HexOfBytes(Tail(bs))

\* hex(idx) of a Python int
HexOfInt(n) ==
    (IF n.neg THEN <<"-">> ELSE <<>>) \o <<"0", "x">> \o
    (IF n.mag = <<>> THEN <<"0">> ELSE [i \in 1..Len(n.mag) |-> NibbleChar(n.mag[i])])

\* what an endpoint can answer to eth_getStorageAt: a word, or a failure whose
\* text is str(e)
Words == {<<0, 0>>, <<0, 171>>}
ErrTexts == {<<"t", "i", "m", "e", "o", "u", "t">>, <<"4", "2", "9">>}
Answers == [exc : {FALSE}, val : Words] \cup [exc : {TRUE}, val : ErrTexts]

get_storage_at(ans) == <<"0", "x">> \o HexOfBytes(ans.val)

ERROR_PREFIX == <<"E", "R", "R", "O", "R", ":">>

\* out[label] = get_storage_at(...), or the error marker when it raises
read_one_skip_failed(o, label, ans) ==
    IF ans.exc THEN o ELSE DictSet(o, label, get_storage_at(ans))

read_one_keep_first(o, label, ans) ==
    IF label \in DOMAIN o THEN o
    ELSE IF ans.exc THEN DictSet(o, label, ERROR_PREFIX \o ans.val)
    ELSE DictSet(o, label, get_storage_at(ans))

read_one(o, label, ans) ==
    IF ans.exc THEN DictSet(o, label, ERROR_PREFIX \o ans.val)
    ELSE DictSet(o, label, get_storage_at(ans))

----------------------------------------------------------------------------
(* the URL check of main *)

HTTP == <<"h", "t", "t", "p", ":", "/", "/">>
HTTPS == <<"h", "t", "t", "p", "s", ":", "/", "/">>

url_ok(url) == StartsWith(url, HTTP) \/ StartsWith(url, HTTPS)

urls_ok_only_a(a) == url_ok(a.rpc_a)

urls_ok(a) == url_ok(a.rpc_a) /\ url_ok(a.rpc_b)

----------------------------------------------------------------------------
(* parse_args: the command lines of the model *)

URL_A_GOOD == HTTP \o <<"a">>
URL_A_BAD == <<"f", "t", "p", ":", "/", "/", "a">>
URL_B_GOOD == HTTPS \o <<"b">>
URL_B_BAD == <<"b">>

\* --slot items: two slots labelled a, a bare slot, an upper-case prefix,
\* a payload without prefix, a second colon
ITEM_A1 == <<"a", ":", "0", "x", "1">>
ITEM_A2 == <<"a", ":", "0", "x", "2">>
ITEM_BARE == <<"0", "x", "1">>
ITEM_B == <<"b", ":", "0", "X", "F">>
ITEM_NOPREFIX == <<"a", ":", "1">>
ITEM_COLONS == <<"b", ":", "a", ":", "0", "x", "1">>
SlotItems == {ITEM_A1, ITEM_A2, ITEM_BARE, ITEM_B, ITEM_NOPREFIX, ITEM_COLONS}

\* the items of the runs of main
RunItems == {ITEM_A1, ITEM_A2, ITEM_BARE, ITEM_NOPREFIX, ITEM_COLONS}

\* manifest entries
RAW_1 == <<"0", "x", "1">>
RAW_F == <<"0", "X", "F">>
RAW_SPACED == <<" ", "0", "x", "2">>
RAW_BAD == <<"0", "x", "g">>
Raws == {RAW_1, RAW_F, RAW_SPACED, RAW_BAD}
Keys == {<<"a">>, <<"b">>}

\* the manifest entries of the runs of main
RunRaws == {RAW_F, RAW_BAD}

\* sequences over S of length at most n
SeqsUpTo(S, n) == UNION {[1..k -> S] : k \in 0..n}

ListManifests(rs) == {[kind |-> "list", items |-> it] : it \in SeqsUpTo(rs, MaxSlots)}

\* json.load keeps one entry per key of an object
DictManifests(rs) ==
    {[kind |-> "dict", items |-> it] :
        it \in {q \in SeqsUpTo(Keys \X rs, MaxSlots) :
                    \A i, j \in 1..Len(q) : i # j => q[i][1] # q[j][1]}}

\* what the file named by --manifest can hold, with entries among rs
Manifests(rs) ==
    {NoManifest, [kind |-> "unreadable", items |-> <<>>], [kind |-> "other", items |-> <<>>]}
        \cup ListManifests(rs) \cup DictManifests(rs)

NoArgs == [rpc_a |-> <<>>, rpc_b |-> <<>>, address |-> <<>>, slot |-> <<>>,
           manifest |-> NoManifest, json |-> FALSE]

\* the slot sources of the runs of main: --slot alone, one --slot item beside a
\* manifest, a manifest alone, neither
RunSources ==
    {[slot |-> sl, manifest |-> NoManifest] : sl \in SeqsUpTo(RunItems, MaxSlots)}
        \cup {[slot |-> sl, manifest |-> m] :
                sl \in SeqsUpTo(RunItems, 1), m \in Manifests(RunRaws)}

RunArgs ==
    {[rpc_a |-> ua, rpc_b |-> ub, address |-> ad, slot |-> src.slot,
      manifest |-> src.manifest, json |-> js] :
        ua \in {URL_A_GOOD, URL_A_BAD}, ub \in {URL_B_GOOD, URL_B_BAD},
        ad \in {AddrLower, AddrBad}, src \in RunSources, js \in BOOLEAN}

\* a command line: the Namespace it would parse to, whether -h is on it, whether
\* --address is on it, whether the --timeout value is an int literal
CommandLines ==
    {[help |-> FALSE, has_address |-> TRUE, timeout_int |-> TRUE, ns |-> a] : a \in RunArgs}
        \cup {[help |-> h, has_address |-> ha, timeout_int |-> ti, ns |-> NoArgs] :
                h \in BOOLEAN, ha \in BOOLEAN, ti \in BOOLEAN}

\* argparse: -h prints the help and exits 0; a missing required argument or a
\* value its type rejects prints the usage and exits 2
parse_args(cl) ==
    IF cl.help THEN "help"
    ELSE IF ~cl.has_address \/ ~cl.timeout_int THEN "usage"
    ELSE "ok"

----------------------------------------------------------------------------
(* the report loop of main *)

\* mismatches after the loop has run from slots[i] on
RECURSIVE CountLoop(_, _, _, _)
CountLoop(sl, i, a, b) ==
    IF i > Len(sl) THEN 0
    ELSE (IF DictGet(a, sl[i][1], MISSING) # DictGet(b, sl[i][1], MISSING) THEN 1 ELSE 0)
         + CountLoop(sl, i + 1, a, b)

count_mismatches(sl, a, b) == CountLoop(sl, 1, a, b)

report_line(lbl, a, b) ==
    LET va == DictGet(a, lbl, MISSING)
        vb == DictGet(b, lbl, MISSING)
    IN  [lbl |-> lbl, va |-> va, vb |-> vb, status |-> IF va = vb THEN "MATCH" ELSE "DIFF"]

exit_status(m) == IF m = 0 THEN 0 ELSE 2

----------------------------------------------------------------------------
(* main *)

BlankRun ==
    /\ address = <<>>
    /\ slots = <<>>
    /\ conn = <<>>
    /\ reads = <<>>
    /\ a_got = <<>>
    /\ b_got = <<>>
    /\ mismatches = 0
    /\ lines = <<>>
    /\ out = [printed |-> FALSE]
    /\ summary = [printed |-> FALSE]
    /\ exit_code = -1
    /\ exit_at = "running"

BlankPure ==
    /\ raw = <<>>
    /\ result = <<>>
    /\ diffs = <<>>
    /\ ok = TRUE

Init ==
    /\ pc = "start"
    /\ args = NoArgs
    /\ a_vals = EmptyDict
    /\ b_vals = EmptyDict
    /\ BlankRun
    /\ BlankPure

PureVars == <<raw, result, diffs, ok>>
MainVars == <<args, address, slots, conn, reads, a_vals, b_vals, a_got, b_got,
              mismatches, lines, out, summary, exit_code, exit_at>>
ReadVars == <<conn, reads, a_vals, b_vals, a_got, b_got>>
ReportVars == <<mismatches, lines, out, summary>>

\* sys.exit(code)
Exit(code, at) == pc' = "done" /\ exit_code' = code /\ exit_at' = at

Goto(l) == pc' = l /\ UNCHANGED <<exit_code, exit_at>>

\* args = parse_args()
ParseArgs ==
    /\ pc = "start"
    /\ \E cl \in CommandLines :
         LET r == parse_args(cl)
         IN  IF r = "help" THEN Exit(0, "help") /\ UNCHANGED args
             ELSE IF r = "usage" THEN Exit(2, "usage") /\ UNCHANGED args
             ELSE Goto("urls") /\ args' = cl.ns
    /\ UNCHANGED <<address, slots, ReadVars, ReportVars, PureVars>>

\* the loop over the two URLs
ValidateUrls ==
    /\ pc = "urls"
    /\ IF urls_ok(args) THEN Goto("inputs") ELSE Exit(1, "urls")
    /\ UNCHANGED <<args, address, slots, ReadVars, ReportVars, PureVars>>

\* address = to_checksum(args.address); slots = parse_slots(args)
ValidateInputs ==
    /\ pc = "inputs"
    /\ LET ad == to_checksum(args.address)
           ps == parse_slots(args)
       IN  IF ad = <<>> \/ ps.exc
           THEN Exit(1, "inputs") /\ UNCHANGED <<address, slots>>
           ELSE Goto("connect_a") /\ address' = ad /\ slots' = ps.slots
    /\ UNCHANGED <<args, ReadVars, ReportVars, PureVars>>

\* if not w3a.is_connected(): ... sys.exit(1)
ConnectA ==
    /\ pc = "connect_a"
    /\ \E up \in BOOLEAN :
         /\ conn' = Append(conn, <<"A", up>>)
         /\ IF up THEN Goto("connect_b") ELSE Exit(1, "connect_a")
    /\ UNCHANGED <<args, address, slots, reads, a_vals, b_vals, a_got, b_got,
                   ReportVars, PureVars>>

\* if not w3b.is_connected(): ... sys.exit(1)
ConnectB ==
    /\ pc = "connect_b"
    /\ \E up \in BOOLEAN :
         /\ conn' = Append(conn, <<"B", up>>)
         /\ IF up THEN Goto("banner") ELSE Exit(1, "connect_b")
    /\ UNCHANGED <<args, address, slots, reads, a_vals, b_vals, a_got, b_got,
                   ReportVars, PureVars>>

\* the banner: both chain-id lookups may fail and are skipped when they do
Banner ==
    /\ pc = "banner"
    /\ \E chain_a_ok \in BOOLEAN, chain_b_ok \in BOOLEAN : Goto("read_a")
    /\ UNCHANGED <<args, address, slots, ReadVars, ReportVars, PureVars>>

\* one iteration of the loop of read_slots(w3a, ...), or its return
ReadA ==
    /\ pc = "read_a"
    /\ IF Len(a_got) < Len(slots) THEN
           \E ans \in Answers :
               LET s == slots[Len(a_got) + 1]
               IN  /\ reads' = Append(reads, <<"A", s[1], s[2]>>)
                   /\ a_vals' = read_one(a_vals, s[1], ans)
                   /\ a_got' = Append(a_got, ans)
                   /\ Goto("read_a")
       ELSE Goto("read_b") /\ UNCHANGED <<reads, a_vals, a_got>>
    /\ UNCHANGED <<args, address, slots, conn, b_vals, b_got, ReportVars, PureVars>>

\* one iteration of the loop of read_slots(w3b, ...), or its return
ReadB ==
    /\ pc = "read_b"
    /\ IF Len(b_got) < Len(slots) THEN
           \E ans \in Answers :
               LET s == slots[Len(b_got) + 1]
               IN  /\ reads' = Append(reads, <<"B", s[1], s[2]>>)
                   /\ b_vals' = read_one(b_vals, s[1], ans)
                   /\ b_got' = Append(b_got, ans)
                   /\ Goto("read_b")
       ELSE Goto("report") /\ UNCHANGED <<reads, b_vals, b_got>>
    /\ UNCHANGED <<args, address, slots, conn, a_vals, a_got, ReportVars, PureVars>>

\* the per-slot comparison, the summary, the JSON object and sys.exit
Report ==
    /\ pc = "report"
    /\ lines' = [i \in 1..Len(slots) |-> report_line(slots[i][1], a_vals, b_vals)]
    /\ mismatches' = count_mismatches(slots, a_vals, b_vals)
    /\ summary' = [printed |-> TRUE, verified |-> mismatches' = 0,
                   count |-> mismatches', total |-> Len(slots)]
    /\ out' = IF args.json
              THEN [printed |-> TRUE,
                    address |-> address,
                    slots |-> [i \in 1..Len(slots) |->
                                 [label |-> slots[i][1], index |-> HexOfInt(slots[i][2])]],
                    values_a |-> a_vals,
                    values_b |-> b_vals,
                    mismatches |-> mismatches',
                    ok |-> mismatches' = 0]
              ELSE out
    /\ Exit(exit_status(mismatches'), "report")
    /\ UNCHANGED <<args, address, slots, ReadVars, PureVars>>

Next ==
    \/ ParseArgs
    \/ ValidateUrls
    \/ ValidateInputs
    \/ ConnectA
    \/ ConnectB
    \/ Banner
    \/ ReadA
    \/ ReadB
    \/ Report

Spec == Init /\ [][Next]_vars

----------------------------------------------------------------------------
(* parse_slot_hex applied on its own *)

HexAlphabet == {"0", "1", "F", "x", "X", "g", "_", " "}

LongInputs == {<<"0", "x", "1">> \o Repeat("0", n) : n \in 0..MaxZeros}

HexInputs == StringsUpTo(HexAlphabet, MaxRawLen) \cup LongInputs

InitHex ==
    /\ pc = "call"
    /\ raw \in HexInputs
    /\ result = ValueError
    /\ args = NoArgs
    /\ a_vals = EmptyDict
    /\ b_vals = EmptyDict
    /\ BlankRun
    /\ diffs = <<>>
    /\ ok = TRUE

ParseSlotHex ==
    /\ pc = "call"
    /\ result' = parse_slot_hex(raw)
    /\ pc' = "returned"
    /\ UNCHANGED <<MainVars, raw, diffs, ok>>

SpecHex == InitHex /\ [][ParseSlotHex]_vars

----------------------------------------------------------------------------
(* parse_slots applied on its own *)

SlotArgs ==
    {[NoArgs EXCEPT !.slot = sl, !.manifest = m] :
        sl \in SeqsUpTo(SlotItems, MaxSlots), m \in Manifests(Raws)}

InitSlots ==
    /\ pc = "call"
    /\ args \in SlotArgs
    /\ result = SlotsError
    /\ a_vals = EmptyDict
    /\ b_vals = EmptyDict
    /\ BlankRun
    /\ raw = <<>>
    /\ diffs = <<>>
    /\ ok = TRUE

ParseSlots ==
    /\ pc = "call"
    /\ result' = parse_slots(args)
    /\ pc' = "returned"
    /\ UNCHANGED <<MainVars, raw, diffs, ok>>

SpecSlots == InitSlots /\ [][ParseSlots]_vars

----------------------------------------------------------------------------
(* compare applied on its own *)

CompareKeys == {<<"x">>, <<"y">>, <<"B">>, <<"x", "y">>}
CompareVals == {<<"0", "x", "1">>, <<"0", "x", "2">>, MISSING}

\* the dicts with at most MaxKeys keys
Dicts ==
    UNION {[D -> CompareVals] : D \in {K \in SUBSET CompareKeys : Cardinality(K) <= MaxKeys}}

InitCompare ==
    /\ pc = "call"
    /\ a_vals \in Dicts
    /\ b_vals \in Dicts
    /\ args = NoArgs
    /\ BlankRun
    /\ BlankPure

Compare ==
    /\ pc = "call"
    /\ LET r == compare(a_vals, b_vals)
       IN  diffs' = r[1] /\ ok' = r[2]
    /\ pc' = "returned"
    /\ UNCHANGED <<MainVars, raw, result>>

SpecCompare == InitCompare /\ [][Compare]_vars

----------------------------------------------------------------------------
(* What the claims compare the code against *)

RECURSIVE Pow16(_)
Pow16(n) == IF n = 0 THEN 1 ELSE 16 * Pow16(n - 1)

RECURSIVE SumTo(_, _)
SumTo(f, n) == IF n = 0 THEN 0 ELSE f[n] + SumTo(f, n - 1)

\* the number a sequence of digit values denotes in base 16
Base16(ds) == SumTo([k \in 1..Len(ds) |-> ds[k] * Pow16(Len(ds) - k)], Len(ds))

\* the hexadecimal digits of r, in order, whatever stands between them; the
\* leading 0 of the prefix adds nothing to the value
DigitsOf(r) == SelectSeq(r, IsHexDigit)

\* the value of r read as hexadecimal, letter case ignored
ValueOf(r) == Base16([k \in 1..Len(DigitsOf(r)) |-> DigitVal(LowerChar(DigitsOf(r)[k]))])

\* Base16 stays below 2^31 for so many digits
Countable(r) == Len(DigitsOf(r)) <= 7

\* r is 0x or 0X followed by one or more hexadecimal digits
PlainHex(r) ==
    /\ Len(r) >= 3
    /\ r[1] = "0"
    /\ r[2] \in {"x", "X"}
    /\ \A i \in 3..Len(r) : r[i] \in HexDigits

\* r is whitespace, 0x or 0X, a payload, whitespace, where the payload is made
\* of hexadecimal digits and of single underscores that each stand before a digit
SpacedHex(r) ==
    \E i, j \in 1..Len(r) :
        /\ i + 2 <= j
        /\ \A k \in 1..Len(r) : (k < i \/ k > j) => IsSpace(r[k])
        /\ r[i] = "0"
        /\ r[i + 1] \in {"x", "X"}
        /\ r[j] \in HexDigits
        /\ \A k \in (i + 2)..j : r[k] \in HexDigits \cup {"_"}
        /\ \A k \in (i + 2)..(j - 1) : r[k] = "_" => r[k + 1] # "_"

----------------------------------------------------------------------------
(* Claims about parse_slot_hex, under SpecHex *)

\* C6 as stated: parse_slot_hex returns an integer exactly for the strings that
\* are 0x/0X followed by one or more hexadecimal digits, fails for all others,
\* and the integer is the base-16 value of the digits.
C6_PlainHexOnly ==
    pc = "returned" =>
        /\ result.exc <=> ~PlainHex(raw)
        /\ (~result.exc /\ Countable(raw)) => Base16(result.mag) = ValueOf(raw)

\* C6 as amended: surrounding whitespace is stripped first and single
\* underscores are allowed in the payload; parse_slot_hex returns an integer
\* exactly for such strings, fails for all others, and the integer is the
\* non-negative base-16 value of the digits, letter case and underscores ignored.
C6_SpacedHexOnly ==
    pc = "returned" =>
        /\ result.exc <=> ~SpacedHex(raw)
        /\ ~result.exc => ~result.neg
        /\ ~result.exc => (result.mag = <<>> \/ result.mag[1] # 0)
        /\ (~result.exc /\ Countable(raw)) => Base16(result.mag) = ValueOf(raw)

\* an upper-case prefix and digit behind a space, parsed to 15
C6_Witness ==
    /\ pc = "returned"
    /\ raw = <<" ", "0", "X", "F">>
    /\ ~result.exc
    /\ result.mag = <<15>>

\* C7: every index parse_slot_hex returns is an unsigned 256-bit integer, that
\* is non-negative with at most 64 significant hexadecimal digits.
C7_IndexIsUint256 ==
    (pc = "returned" /\ ~result.exc) => (~result.neg /\ Len(result.mag) <= 64)

----------------------------------------------------------------------------
(* Claims about parse_slots, under SpecSlots *)

FirstColon(item) == CHOOSE i \in 1..Len(item) : item[i] = ":" /\ \A j \in 1..Len(item) : item[j] = ":" => i <= j

HasColon(item) == \E i \in 1..Len(item) : item[i] = ":"

\* the label and the hex string a --slot item stands for
LabelOfItem(item) == IF HasColon(item) THEN SubSeq(item, 1, FirstColon(item) - 1) ELSE item
HexOfItem(item) == IF HasColon(item) THEN SubSeq(item, FirstColon(item) + 1, Len(item)) ELSE item

\* the source parse_slots is to use, and its entries as <<label, hex string>>
UsesSlotFlags(a) == a.slot # <<>>
UsesManifest(a) == a.slot = <<>> /\ a.manifest.kind \in {"list", "dict"}

EntriesOf(a) ==
    IF UsesSlotFlags(a) THEN
        [i \in 1..Len(a.slot) |-> <<LabelOfItem(a.slot[i]), HexOfItem(a.slot[i])>>]
    ELSE IF a.manifest.kind = "list" THEN
        [i \in 1..Len(a.manifest.items) |-> <<a.manifest.items[i], a.manifest.items[i]>>]
    ELSE a.manifest.items

\* C5: parse_slots returns one (label, index) pair per item of a single source,
\* in input order: the --slot items when there is one (manifest ignored), else
\* the manifest's array elements (label = raw string) or object entries
\* (label = key); every index is the base-16 value of the entry's hex string;
\* it fails when no source is given, when the manifest is neither an array nor
\* an object, and otherwise only when some hex string is malformed.
C5_ParseSlots ==
    pc = "returned" =>
        LET es == EntriesOf(args)
        IN  /\ (args.slot = <<>> /\ args.manifest.kind = "none") => result.exc
            /\ (args.slot = <<>> /\ args.manifest.kind = "other") => result.exc
            /\ result.exc <=>
                 \/ ~(UsesSlotFlags(args) \/ UsesManifest(args))
                 \/ \E i \in 1..Len(es) : ~SpacedHex(es[i][2])
            /\ ~result.exc =>
                 /\ Len(result.slots) = Len(es)
                 /\ \A i \in 1..Len(es) :
                      /\ result.slots[i][1] = es[i][1]
                      /\ ~result.slots[i][2].exc
                      /\ ~result.slots[i][2].neg
                      /\ Base16(result.slots[i][2].mag) = ValueOf(es[i][2])

\* two --slot items beside a non-empty manifest array: the items win
C5_Witness ==
    /\ pc = "returned"
    /\ args.slot = <<ITEM_A2, ITEM_B>>
    /\ args.manifest.kind = "list"
    /\ args.manifest.items = <<RAW_1>>
    /\ result = [exc |-> FALSE,
                 slots |-> << <<<<"a">>, PyInt(FALSE, <<2>>)>>,
                              <<<<"b">>, PyInt(FALSE, <<15>>)>> >>]

----------------------------------------------------------------------------
(* Claims about compare, under SpecCompare *)

\* s sorts before t: s is a proper prefix of t, or they first differ where s
\* has the smaller code point
SortsBefore(s, t) ==
    \E n \in 0..Len(s) :
        /\ n <= Len(t)
        /\ \A k \in 1..n : s[k] = t[k]
        /\ \/ (n = Len(s) /\ n < Len(t))
           \/ (n < Len(s) /\ n < Len(t) /\ Ord(s[n + 1]) < Ord(t[n + 1]))

ValueIn(d, k) == IF k \in DOMAIN d THEN d[k] ELSE MISSING

\* C4: the mismatch list of compare(a, b) holds, in ascending label order and
\* once each, the triple (label, a-value, b-value) of every label of either map
\* whose values differ (MISSING standing for an absent label), holds nothing
\* else, and the boolean is true iff the list is empty.
C4_Compare ==
    pc = "returned" =>
        LET U == (DOMAIN a_vals) \cup (DOMAIN b_vals)
        IN  /\ \A i \in 1..Len(diffs) :
                 /\ diffs[i][1] \in U
                 /\ diffs[i] = <<diffs[i][1], ValueIn(a_vals, diffs[i][1]),
                                 ValueIn(b_vals, diffs[i][1])>>
                 /\ diffs[i][2] # diffs[i][3]
            /\ \A i, j \in 1..Len(diffs) : i < j => SortsBefore(diffs[i][1], diffs[j][1])
            /\ \A k \in U :
                 ValueIn(a_vals, k) # ValueIn(b_vals, k) => \E i \in 1..Len(diffs) : diffs[i][1] = k
            /\ ok <=> diffs = <<>>

\* a label of b alone and a label of both with different values, given in
\* ascending order
C4_Witness ==
    /\ pc = "returned"
    /\ a_vals = (<<"x", "y">> :> <<"0", "x", "1">>)
    /\ DOMAIN b_vals = {<<"x", "y">>, <<"B">>}
    /\ diffs = << <<<<"B">>, MISSING, <<"0", "x", "2">>>>,
                  <<<<"x", "y">>, <<"0", "x", "1">>, <<"0", "x", "2">>>> >>
    /\ ~ok

----------------------------------------------------------------------------
(* Claims about main, under Spec *)

Labels == {slots[i][1] : i \in 1..Len(slots)}

\* what a read that got answer ans leaves as the value of its label
Recorded(ans) ==
    IF ans.exc THEN <<"E", "R", "R", "O", "R", ":">> \o ans.val
    ELSE <<"0", "x">> \o HexOfBytes(ans.val)

\* the position of the last slot that carries the label of slot i
LastWithLabel(i) ==
    CHOOSE j \in 1..Len(slots) :
        /\ slots[j][1] = slots[i][1]
        /\ \A k \in 1..Len(slots) : slots[k][1] = slots[i][1] => k <= j

\* the run ended on an input-validation or connectivity failure
FailedEarly == exit_at \in {"usage", "urls", "inputs", "connect_a", "connect_b"}

\* C1: a run ends with 1 on every input-validation or connectivity failure,
\* and otherwise with 0 when the recorded A and B values of every slot are
\* equal and with 2 when those of some slot differ.
C1_ExitCode ==
    pc = "done" =>
        /\ exit_code \in {0, 1, 2}
        /\ FailedEarly => exit_code = 1
        /\ exit_code = 1 => FailedEarly
        /\ exit_at = "report" =>
             exit_code = IF \A i \in 1..Len(slots) :
                               DictGet(a_vals, slots[i][1], MISSING)
                                   = DictGet(b_vals, slots[i][1], MISSING)
                         THEN 0 ELSE 2

\* C2: a storage read is issued only after both URLs, the address and the slot
\* list passed validation and endpoint A and then endpoint B each answered one
\* connectivity check; a run that fails one of these steps ends with 1 and no
\* read, and a validation failure ends without any connectivity check.
C2_ChecksBeforeReads ==
    /\ conn \in { <<>>, << <<"A", FALSE>> >>, << <<"A", TRUE>> >>,
                  << <<"A", TRUE>>, <<"B", FALSE>> >>, << <<"A", TRUE>>, <<"B", TRUE>> >> }
    /\ conn # <<>> =>
         /\ url_ok(args.rpc_a) /\ url_ok(args.rpc_b)
         /\ args.address \in {AddrLower, AddrChecksum}
         /\ Len(slots) = Len(EntriesOf(args))
         /\ \A i \in 1..Len(EntriesOf(args)) : SpacedHex(EntriesOf(args)[i][2])
         /\ UsesSlotFlags(args) \/ UsesManifest(args)
    /\ reads # <<>> => conn = << <<"A", TRUE>>, <<"B", TRUE>> >>
    /\ exit_at \in {"urls", "inputs", "connect_a", "connect_b"} =>
         exit_code = 1 /\ reads = <<>>
    /\ exit_at \in {"urls", "inputs"} => conn = <<>>
    /\ (pc = "done" /\ Len(conn) > 0 /\ ~conn[Len(conn)][2]) => exit_code = 1

\* both checks passed and the first read is out
C2_Witness ==
    /\ conn = << <<"A", TRUE>>, <<"B", TRUE>> >>
    /\ Len(reads) = 1
    /\ pc = "read_a"

\* the reads of a whole run: every slot from A in input order, then every slot
\* from B in input order
AllReads ==
    [i \in 1..(2 * Len(slots)) |->
        IF i <= Len(slots) THEN <<"A", slots[i][1], slots[i][2]>>
        ELSE <<"B", slots[i - Len(slots)][1], slots[i - Len(slots)][2]>>]

\* C3: the reads issued are always a prefix of "each slot once from A in input
\* order, then each slot once from B in input order", and a run that started
\* reading issues them all whatever failed; a failed read leaves "ERROR:" and
\* the failure text as the value of its label in that endpoint's map.
C3_OneReadPerSlot ==
    /\ Len(reads) <= 2 * Len(slots)
    /\ reads = SubSeq(AllReads, 1, Len(reads))
    /\ Len(reads) = Len(a_got) + Len(b_got)
    /\ Len(b_got) > 0 => Len(a_got) = Len(slots)
    /\ (pc \in {"report", "done"} /\ exit_at \in {"running", "report"}) => reads = AllReads
    /\ (\E i \in 1..Len(a_got) : a_got[i].exc) \/ (\E i \in 1..Len(b_got) : b_got[i].exc)
           => (pc = "done" => exit_at = "report")
    /\ Len(a_got) > 0 /\ a_got[Len(a_got)].exc =>
         /\ slots[Len(a_got)][1] \in DOMAIN a_vals
         /\ a_vals[slots[Len(a_got)][1]]
                = <<"E", "R", "R", "O", "R", ":">> \o a_got[Len(a_got)].val
    /\ Len(b_got) > 0 /\ b_got[Len(b_got)].exc =>
         /\ slots[Len(b_got)][1] \in DOMAIN b_vals
         /\ b_vals[slots[Len(b_got)][1]]
                = <<"E", "R", "R", "O", "R", ":">> \o b_got[Len(b_got)].val

\* the first read of A failed, and the run went on to read everything
C3_Witness ==
    /\ pc = "done"
    /\ exit_at = "report"
    /\ Len(slots) = 2
    /\ a_got[1].exc
    /\ ~a_got[2].exc
    /\ Len(reads) = 4

\* C8: after the reads, each endpoint's map has one entry per distinct label,
\* holding what the last slot with that label read; every report line of a
\* label shows those last values of A and B and is marked by comparing them.
C8_LastDuplicateWins ==
    (pc \in {"report", "done"} /\ exit_at \in {"running", "report"}) =>
        /\ DOMAIN a_vals = Labels
        /\ DOMAIN b_vals = Labels
        /\ \A i \in 1..Len(slots) :
             LET j == LastWithLabel(i)
             IN  /\ a_vals[slots[i][1]] = Recorded(a_got[j])
                 /\ b_vals[slots[i][1]] = Recorded(b_got[j])
                 /\ pc = "done" =>
                      /\ lines[i].lbl = slots[i][1]
                      /\ lines[i].va = Recorded(a_got[j])
                      /\ lines[i].vb = Recorded(b_got[j])
                      /\ lines[i].status = "MATCH" <=> Recorded(a_got[j]) = Recorded(b_got[j])

\* two slots labelled a whose reads of A differ: the second is what is shown
C8_Witness ==
    /\ pc = "done"
    /\ exit_at = "report"
    /\ Len(slots) = 2
    /\ slots[1][1] = slots[2][1]
    /\ slots[1][2] # slots[2][2]
    /\ a_got[1] # a_got[2]
    /\ lines[1].va = Recorded(a_got[2])

\* C9: the count and the flag main reports (summary, JSON, exit code) are the
\* length of the list and the boolean compare returns on the two maps, and the
\* count is at most the number of distinct labels.
C9_ReportEqualsCompare ==
    (pc = "done" /\ exit_at = "report") =>
        LET r == compare(a_vals, b_vals)
        IN  /\ mismatches = Len(r[1])
            /\ summary.count = Len(r[1])
            /\ summary.verified = r[2]
            /\ out.printed => (out.mismatches = Len(r[1]) /\ out.ok = r[2])
            /\ (exit_code = 0) = r[2]
            /\ mismatches <= Cardinality(Labels)

\* C10: a run that ends with 0 read every slot from both endpoints without a
\* failure and got equal values for it.
C10_ZeroMeansAllReadEqual ==
    (pc = "done" /\ exit_code = 0) =>
        /\ Len(a_got) = Len(slots)
        /\ Len(b_got) = Len(slots)
        /\ \A i \in 1..Len(slots) :
             /\ ~a_got[i].exc
             /\ ~b_got[i].exc
             /\ a_got[i].val = b_got[i].val

====
